---- MODULE Spec2Model ----
(***************************************************************************)
(* Schedule-aware refresh decisions (data/cache/scheduler.py) and the      *)
(* file-based cache store (data/cache/manager.py) of the economics         *)
(* dashboard.                                                              *)
(*                                                                         *)
(* Timestamps are wall-clock values of the reference timezone              *)
(* (Europe/London): a date [y, m, d] and a time of day in minutes since    *)
(* midnight.  All datetimes the scheduler compares carry the same tzinfo   *)
(* object, so Python compares their wall-clock fields.                     *)
(***************************************************************************)
EXTENDS Integers, Sequences, FiniteSets, TLC

(***************************************************************************)
(* Bounds of the model.                                                    *)
(***************************************************************************)
\* number of consecutive calendar years the sampled dates are drawn from
NumYears == 2
\* largest row count of a payload handed to put
MaxRows == 2
\* number of put calls (each put reads a later clock value)
MaxPuts == 2

(***************************************************************************)
(* RefreshReason (data/models/cache.py)                                    *)
(***************************************************************************)
INITIAL_FETCH == "initial_fetch"
FORCED_REFRESH == "forced_refresh"
DAILY_UPDATE_EXPECTED == "daily_update_expected"
MONTHLY_UPDATE_EXPECTED == "monthly_update_expected"
ALREADY_CURRENT == "already_current"
CACHED_WEEKEND == "cached_weekend_no_update"
CACHED_BEFORE_CHECK_TIME == "cached_before_check_time"
CACHED_BEFORE_RELEASE_DAY == "cached_before_release_day"
FETCH_FAILED_USING_STALE == "fetch_failed_using_stale"

RefreshReason ==
  { INITIAL_FETCH, FORCED_REFRESH, DAILY_UPDATE_EXPECTED, MONTHLY_UPDATE_EXPECTED,
    ALREADY_CURRENT, CACHED_WEEKEND, CACHED_BEFORE_CHECK_TIME,
    CACHED_BEFORE_RELEASE_DAY, FETCH_FAILED_USING_STALE }

(***************************************************************************)
(* Calendar arithmetic: datetime.date, calendar.monthrange, timedelta.     *)
(***************************************************************************)
IsLeap(y) == (y % 4 = 0) /\ ((y % 100 # 0) \/ (y % 400 = 0))

\* calendar.monthrange(y, m)[1]
DaysInMonth(y, m) ==
  IF m = 2 THEN (IF IsLeap(y) THEN 29 ELSE 28)
  ELSE IF m \in {4, 6, 9, 11} THEN 30 ELSE 31

RECURSIVE DaysBeforeMonth(_, _)
DaysBeforeMonth(y, m) ==
  IF m = 1 THEN 0 ELSE DaysBeforeMonth(y, m - 1) + DaysInMonth(y, m - 1)

\* date.toordinal(): proleptic Gregorian ordinal, 0001-01-01 is day 1
ToOrdinal(dt) ==
  LET p == dt.y - 1
  IN  p * 365 + (p \div 4) - (p \div 100) + (p \div 400)
        + DaysBeforeMonth(dt.y, dt.m) + dt.d

\* date.weekday(): Monday is 0, Sunday is 6
Weekday(dt) == (ToOrdinal(dt) + 6) % 7

MkDate(y, m, d) == [y |-> y, m |-> m, d |-> d]

\* date + timedelta(days=1)
AddDay(dt) ==
  IF dt.d < DaysInMonth(dt.y, dt.m) THEN MkDate(dt.y, dt.m, dt.d + 1)
  ELSE IF dt.m < 12 THEN MkDate(dt.y, dt.m + 1, 1)
  ELSE MkDate(dt.y + 1, 1, 1)

\* datetime.combine(date, time, tzinfo=uk_tz)
Combine(dt, t) == [date |-> dt, t |-> t]

\* comparison of two datetimes of the same timezone
DtLess(a, b) ==
  \/ ToOrdinal(a.date) < ToOrdinal(b.date)
  \/ (a.date = b.date /\ a.t < b.t)

DtGeq(a, b) == ~DtLess(a, b)

(***************************************************************************)
(* holidays.UK(): the bank holidays common to the whole United Kingdom.    *)
(* The dates the model reaches lie in December, January and February, so   *)
(* the calendar lists New Year's Day, Christmas Day and Boxing Day with    *)
(* their substitute days, and the two Monday holidays of May.              *)
(***************************************************************************)
InUkHolidays(dt) ==
  LET wd == Weekday(dt)
  IN  \/ dt.m = 1 /\ dt.d = 1
      \/ dt.m = 1 /\ dt.d = 2 /\ wd = 0      \* New Year's Day fell on Sunday
      \/ dt.m = 1 /\ dt.d = 3 /\ wd = 0      \* New Year's Day fell on Saturday
      \/ dt.m = 12 /\ dt.d = 25
      \/ dt.m = 12 /\ dt.d = 26
      \/ dt.m = 12 /\ dt.d = 27 /\ wd \in {0, 1}  \* Christmas Day on Sat / Sun
      \/ dt.m = 12 /\ dt.d = 28 /\ wd \in {0, 1}  \* Boxing Day on Sat / Sun
      \/ dt.m = 5 /\ wd = 0 /\ (dt.d <= 7 \/ dt.d >= 25)

(***************************************************************************)
(* RefreshScheduler                                                        *)
(***************************************************************************)
\* RefreshScheduler.SCHEDULES; check_time in minutes since midnight,
\* publication_day 0 stands for None
SCHEDULES ==
  [ monetary |-> [frequency |-> "daily", check_time |-> 10 * 60,
                  publication_day |-> 0, weekdays_only |-> TRUE],
    housing  |-> [frequency |-> "monthly", check_time |-> 15 * 60,
                  publication_day |-> 20, weekdays_only |-> TRUE],
    economic |-> [frequency |-> "monthly", check_time |-> 12 * 60,
                  publication_day |-> 15, weekdays_only |-> TRUE] ]

\* CacheManager.DATASETS
DATASETS == {"monetary", "housing", "economic"}

\* an identifier no table configures (test_unknown_dataset_raises_error)
UNKNOWN == "invalid_dataset"
Identifiers == DATASETS \cup {UNKNOWN}

\* last_fetch is None
NoFetch == [date |-> MkDate(0, 0, 0), t |-> 0]

Decision(refresh, reason, next) ==
  [should_refresh |-> refresh, reason |-> reason, next_expected |-> next]

\* raise ValueError(f"Unknown dataset: {dataset}"): the call returns nothing
ValueError == Decision(FALSE, "ValueError", NoFetch)

\* schedule.publication_day or 15
PubDay(schedule) ==
  IF schedule.publication_day = 0 THEN 15 ELSE schedule.publication_day

\* mutant: only weekends are skipped, holidays are not
NextBusinessDaySkipsWeekends(from_date, at_time) ==
  IF Weekday(from_date) = 5 THEN Combine(AddDay(AddDay(from_date)), at_time)
  ELSE IF Weekday(from_date) = 6 THEN Combine(AddDay(from_date), at_time)
  ELSE Combine(from_date, at_time)

\* mutant: the search starts on the day after from_date
NextBusinessDayAfterToday(from_date, at_time) ==
  LET Closed(dt) == Weekday(dt) >= 5 \/ InUkHolidays(dt)
      d1 == AddDay(from_date)
      d2 == AddDay(d1)
      d3 == AddDay(d2)
      d4 == AddDay(d3)
      d5 == AddDay(d4)
      d6 == AddDay(d5)
  IN  IF ~Closed(d1) THEN Combine(d1, at_time)
      ELSE IF ~Closed(d2) THEN Combine(d2, at_time)
      ELSE IF ~Closed(d3) THEN Combine(d3, at_time)
      ELSE IF ~Closed(d4) THEN Combine(d4, at_time)
      ELSE IF ~Closed(d5) THEN Combine(d5, at_time)
      ELSE Combine(d6, at_time)

RECURSIVE _next_business_day(_, _)
_next_business_day(from_date, at_time) ==
  IF Weekday(from_date) >= 5 \/ InUkHolidays(from_date)
    THEN _next_business_day(AddDay(from_date), at_time)
    ELSE Combine(from_date, at_time)

is_business_day(check_date) ==
  Weekday(check_date) < 5 /\ ~InUkHolidays(check_date)

Min(a, b) == IF a < b THEN a ELSE b

_publication_datetime(year, month, day, at_time) ==
  LET max_day == DaysInMonth(year, month)
      actual_day == Min(day, max_day)
  IN  Combine(MkDate(year, month, actual_day), at_time)

\* mutant: the month after December is January of the same year
CalcNextExpectedSameYear(schedule, from_datetime) ==
  IF schedule.frequency = "daily"
    THEN _next_business_day(AddDay(from_datetime.date), schedule.check_time)
    ELSE LET m1 == from_datetime.date.m + 1
             month == IF m1 > 12 THEN 1 ELSE m1
             year == from_datetime.date.y
         IN  _publication_datetime(year, month, PubDay(schedule),
                                   schedule.check_time)

_calculate_next_expected(schedule, from_datetime) ==
  IF schedule.frequency = "daily"
    THEN _next_business_day(AddDay(from_datetime.date), schedule.check_time)
    ELSE LET m1 == from_datetime.date.m + 1
             month == IF m1 > 12 THEN 1 ELSE m1
             year == IF m1 > 12 THEN from_datetime.date.y + 1
                                ELSE from_datetime.date.y
         IN  _publication_datetime(year, month, PubDay(schedule),
                                   schedule.check_time)

\* mutant: the same-day test accepts a fetch made before check_time
CheckDailyAnyTimeToday(schedule, last_fetch, now) ==
  LET today == now.date
      check_datetime == Combine(today, schedule.check_time)
  IN  IF last_fetch.date = today
        THEN Decision(FALSE, ALREADY_CURRENT,
                      _calculate_next_expected(schedule, now))
      ELSE IF schedule.weekdays_only /\ Weekday(today) >= 5
        THEN Decision(FALSE, CACHED_WEEKEND,
                      _next_business_day(today, schedule.check_time))
      ELSE IF schedule.weekdays_only /\ InUkHolidays(today)
        THEN Decision(FALSE, CACHED_WEEKEND,
                      _next_business_day(AddDay(today), schedule.check_time))
      ELSE IF DtLess(now, check_datetime)
        THEN Decision(FALSE, CACHED_BEFORE_CHECK_TIME, check_datetime)
      ELSE Decision(TRUE, DAILY_UPDATE_EXPECTED,
                    _calculate_next_expected(schedule, now))

\* mutant: on a weekend the cache is reported kept and a refresh is asked
CheckDailyRefreshOnWeekend(schedule, last_fetch, now) ==
  LET today == now.date
      check_datetime == Combine(today, schedule.check_time)
  IN  IF last_fetch.date = today /\ DtGeq(last_fetch, check_datetime)
        THEN Decision(FALSE, ALREADY_CURRENT,
                      _calculate_next_expected(schedule, now))
      ELSE IF schedule.weekdays_only /\ Weekday(today) >= 5
        THEN Decision(TRUE, CACHED_WEEKEND,
                      _next_business_day(today, schedule.check_time))
      ELSE IF schedule.weekdays_only /\ InUkHolidays(today)
        THEN Decision(FALSE, CACHED_WEEKEND,
                      _next_business_day(AddDay(today), schedule.check_time))
      ELSE IF DtLess(now, check_datetime)
        THEN Decision(FALSE, CACHED_BEFORE_CHECK_TIME, check_datetime)
      ELSE Decision(TRUE, DAILY_UPDATE_EXPECTED,
                    _calculate_next_expected(schedule, now))

_check_daily_refresh(schedule, last_fetch, now) ==
  LET today == now.date
      check_datetime == Combine(today, schedule.check_time)
  IN  IF last_fetch.date = today /\ DtGeq(last_fetch, check_datetime)
        THEN Decision(FALSE, ALREADY_CURRENT,
                      _calculate_next_expected(schedule, now))
      ELSE IF schedule.weekdays_only /\ Weekday(today) >= 5
        THEN Decision(FALSE, CACHED_WEEKEND,
                      _next_business_day(today, schedule.check_time))
      ELSE IF schedule.weekdays_only /\ InUkHolidays(today)
        THEN Decision(FALSE, CACHED_WEEKEND,
                      _next_business_day(AddDay(today), schedule.check_time))
      ELSE IF DtLess(now, check_datetime)
        THEN Decision(FALSE, CACHED_BEFORE_CHECK_TIME, check_datetime)
      ELSE Decision(TRUE, DAILY_UPDATE_EXPECTED,
                    _calculate_next_expected(schedule, now))

\* mutant: the month test forgets the publication day of the last fetch
CheckMonthlyAnyDayOfMonth(schedule, last_fetch, now) ==
  LET today == now.date
      pub_day == PubDay(schedule)
      check_datetime ==
        Combine(MkDate(today.y, today.m,
                       Min(pub_day, DaysInMonth(today.y, today.m))),
                schedule.check_time)
  IN  IF /\ last_fetch.date.y = today.y
         /\ last_fetch.date.m = today.m
        THEN Decision(FALSE, ALREADY_CURRENT,
                      _calculate_next_expected(schedule, now))
      ELSE IF today.d < pub_day
        THEN Decision(FALSE, CACHED_BEFORE_RELEASE_DAY,
                      _publication_datetime(today.y, today.m, pub_day,
                                            schedule.check_time))
      ELSE IF DtLess(now, check_datetime)
        THEN Decision(FALSE, CACHED_BEFORE_CHECK_TIME, check_datetime)
      ELSE Decision(TRUE, MONTHLY_UPDATE_EXPECTED,
                    _calculate_next_expected(schedule, now))

_check_monthly_refresh(schedule, last_fetch, now) ==
  LET today == now.date
      pub_day == PubDay(schedule)
      check_datetime ==
        Combine(MkDate(today.y, today.m,
                       Min(pub_day, DaysInMonth(today.y, today.m))),
                schedule.check_time)
  IN  IF /\ last_fetch.date.y = today.y
         /\ last_fetch.date.m = today.m
         /\ last_fetch.date.d >= pub_day
        THEN Decision(FALSE, ALREADY_CURRENT,
                      _calculate_next_expected(schedule, now))
      ELSE IF today.d < pub_day
        THEN Decision(FALSE, CACHED_BEFORE_RELEASE_DAY,
                      _publication_datetime(today.y, today.m, pub_day,
                                            schedule.check_time))
      ELSE IF DtLess(now, check_datetime)
        THEN Decision(FALSE, CACHED_BEFORE_CHECK_TIME, check_datetime)
      ELSE Decision(TRUE, MONTHLY_UPDATE_EXPECTED,
                    _calculate_next_expected(schedule, now))

\* mutant: the schedule is consulted before the missing last_fetch
ShouldRefreshAtScheduleFirst(dataset, last_fetch, at_time) ==
  IF dataset \notin DOMAIN SCHEDULES THEN ValueError
  ELSE
  LET schedule == SCHEDULES[dataset]
  IN  IF schedule.frequency = "daily"
        THEN _check_daily_refresh(schedule, last_fetch, at_time)
      ELSE IF last_fetch = NoFetch
        THEN Decision(TRUE, INITIAL_FETCH,
                      _calculate_next_expected(schedule, at_time))
      ELSE _check_monthly_refresh(schedule, last_fetch, at_time)

\* mutant: an identifier without a schedule gets the daily schedule
ShouldRefreshAtDefaultSchedule(dataset, last_fetch, at_time) ==
  LET schedule == IF dataset \in DOMAIN SCHEDULES THEN SCHEDULES[dataset]
                  ELSE SCHEDULES["monetary"]
  IN  IF last_fetch = NoFetch
        THEN Decision(TRUE, INITIAL_FETCH,
                      _calculate_next_expected(schedule, at_time))
      ELSE IF schedule.frequency = "daily"
        THEN _check_daily_refresh(schedule, last_fetch, at_time)
      ELSE _check_monthly_refresh(schedule, last_fetch, at_time)

\* RefreshScheduler.should_refresh_at
should_refresh_at(dataset, last_fetch, at_time) ==
  IF dataset \notin DOMAIN SCHEDULES THEN ValueError
  ELSE
  LET schedule == SCHEDULES[dataset]
  IN  IF last_fetch = NoFetch
        THEN Decision(TRUE, INITIAL_FETCH,
                      _calculate_next_expected(schedule, at_time))
      ELSE IF schedule.frequency = "daily"
        THEN _check_daily_refresh(schedule, last_fetch, at_time)
      ELSE _check_monthly_refresh(schedule, last_fetch, at_time)

\* RefreshScheduler.should_refresh; now is the value datetime.now(uk_tz)
\* returns inside the call
should_refresh(dataset, last_fetch, now) ==
  IF dataset \notin DOMAIN SCHEDULES THEN ValueError
  ELSE
  LET schedule == SCHEDULES[dataset]
  IN  IF last_fetch = NoFetch
        THEN Decision(TRUE, INITIAL_FETCH,
                      _calculate_next_expected(schedule, now))
      ELSE IF schedule.frequency = "daily"
        THEN _check_daily_refresh(schedule, last_fetch, now)
      ELSE _check_monthly_refresh(schedule, last_fetch, now)

\* the result of get_schedule: the schedule returned, or the error raised
Returned(x) == [outcome |-> "ok", value |-> <<x>>]
Raised(error) == [outcome |-> error, value |-> <<>>]

\* RefreshScheduler.get_schedule
get_schedule(dataset) ==
  IF dataset \notin DOMAIN SCHEDULES THEN Raised("ValueError")
  ELSE Returned(SCHEDULES[dataset])

(***************************************************************************)
(* Inputs of the scheduler: every day of December and January of NumYears  *)
(* consecutive years, at the times of day around the three check times.    *)
(***************************************************************************)
SampleYears == 2025 .. (2025 + NumYears - 1)
SampleMonths == {1, 12}
SampleTimes == {9 * 60 + 59, 10 * 60, 12 * 60, 14 * 60 + 59, 15 * 60}

SampleDates ==
  { dt \in [y : SampleYears, m : SampleMonths, d : 1 .. 31] :
      dt.d <= DaysInMonth(dt.y, dt.m) }

SampleInstants == [date : SampleDates, t : SampleTimes]

NoDecision == Decision(FALSE, "none", NoFetch)

NoSchedule == Raised("none")

\* no schedule is handed to a private check
NoCustom == [frequency |-> "none"]

VARIABLES
  q_dataset,     \* scheduler query: dataset
  q_last_fetch,  \* scheduler query: last_fetch, or NoFetch
  q_now,         \* scheduler query: the instant the decision is made at
  q_decision,    \* the RefreshDecision returned, NoDecision before the call
  q_entry,       \* the entry point of the scheduler called, "none" before
  q_schedule,    \* the result of get_schedule, NoSchedule before the call
  q_custom,      \* the DatasetSchedule handed to a private check, or NoCustom
  q_next         \* the datetime _next_business_day returned, NoFetch before

schedVars ==
  <<q_dataset, q_last_fetch, q_now, q_decision, q_entry, q_schedule, q_custom,
    q_next>>

SchedInit ==
  /\ q_dataset \in DATASETS
  /\ q_last_fetch \in SampleInstants \cup {NoFetch}
  /\ q_now \in SampleInstants
  /\ q_decision = NoDecision
  /\ q_entry = "none"
  /\ q_schedule = NoSchedule
  /\ q_custom = NoCustom
  /\ q_next = NoFetch

\* the queries whose last_fetch is not later than now: every day of
\* December 2026 and January 2027 (Boxing Day falls on a Saturday, its
\* substitute on Monday 28); last_fetch is taken before the first and after
\* the last check time of its day
DueDates ==
  {MkDate(2026, 12, d) : d \in 1 .. 31} \cup {MkDate(2027, 1, d) : d \in 1 .. 31}
DueFetches == [date : DueDates, t : {9 * 60 + 59, 15 * 60}]

DueInit ==
  /\ q_dataset \in DATASETS
  /\ q_now \in [date : DueDates, t : SampleTimes]
  /\ q_last_fetch \in {lf \in DueFetches : DtGeq(q_now, lf)}
  /\ q_decision = NoDecision
  /\ q_entry = "none"
  /\ q_schedule = NoSchedule
  /\ q_custom = NoCustom
  /\ q_next = NoFetch

\* the queries of the entry points: every identifier, configured or not, on
\* a Friday, a Saturday and Christmas Day before and after the check times
EntryInstants ==
  [date : {MkDate(2025, 12, 19), MkDate(2025, 12, 20), MkDate(2025, 12, 25)},
   t : {9 * 60 + 59, 15 * 60}]

EntryInit ==
  /\ q_dataset \in Identifiers
  /\ q_last_fetch \in EntryInstants \cup {NoFetch}
  /\ q_now \in EntryInstants
  /\ q_decision = NoDecision
  /\ q_entry = "none"
  /\ q_schedule = NoSchedule
  /\ q_custom = NoCustom
  /\ q_next = NoFetch

\* the queries of _check_monthly_refresh called with a schedule of its own:
\* a monthly DatasetSchedule with any publication day, now on every day of
\* 2025 just before and at the check time, last_fetch not later than
\* now on the first or a late day of a month

MonthlySchedules ==
  [frequency : {"monthly"}, check_time : {15 * 60},
   publication_day : 1 .. 31, weekdays_only : {TRUE}]
MonthlyDates ==
  { dt \in [y : {2025}, m : 1 .. 12, d : 1 .. 31] :
      dt.d <= DaysInMonth(dt.y, dt.m) }
MonthlyFetches ==
  { Combine(dt, 14 * 60 + 59) : dt \in {x \in MonthlyDates : x.d \in {1, 28, 30}} }

MonthlyInit ==
  /\ q_dataset = "housing"
  /\ q_custom \in MonthlySchedules
  /\ q_now \in [date : MonthlyDates, t : {14 * 60 + 59, 15 * 60}]
  /\ q_last_fetch \in {lf \in MonthlyFetches : DtGeq(q_now, lf)}
  /\ q_decision = NoDecision
  /\ q_entry = "none"
  /\ q_schedule = NoSchedule
  /\ q_next = NoFetch

\* the arguments of _next_business_day: every sampled date and time of day
BusinessDayInit ==
  /\ q_dataset = "monetary"
  /\ q_now \in SampleInstants
  /\ q_last_fetch = NoFetch
  /\ q_decision = NoDecision
  /\ q_entry = "none"
  /\ q_schedule = NoSchedule
  /\ q_custom = NoCustom
  /\ q_next = NoFetch

(***************************************************************************)
(* CacheMetadata (data/models/cache.py)                                    *)
(***************************************************************************)
\* datetime.isoformat(): the fields of the timestamp, as <<y, m, d, hh, mm>>
IsoFormat(dt) == <<dt.date.y, dt.date.m, dt.date.d, dt.t \div 60, dt.t % 60>>

\* datetime.fromisoformat()
FromIsoFormat(iso) == Combine(MkDate(iso[1], iso[2], iso[3]), iso[4] * 60 + iso[5])

\* CacheMetadata(...), is_stale defaulting to False
CacheMetadata(dataset, last_fetch, next_expected, data_date, reason, count, stale) ==
  [ dataset |-> dataset, last_fetch |-> last_fetch,
    next_expected |-> next_expected, data_date |-> data_date,
    refresh_reason |-> reason, record_count |-> count, is_stale |-> stale ]

\* CacheMetadata.to_dict / to_json: the JSON document written to the file
to_json(metadata) ==
  [ dataset |-> metadata.dataset,
    last_fetch |-> IsoFormat(metadata.last_fetch),
    next_expected |-> IsoFormat(metadata.next_expected),
    data_date |-> metadata.data_date,
    refresh_reason |-> metadata.refresh_reason,
    record_count |-> metadata.record_count,
    is_stale |-> metadata.is_stale ]

\* CacheMetadata.from_json / from_dict of a well-formed document
from_json(doc) ==
  CacheMetadata(doc.dataset, FromIsoFormat(doc.last_fetch),
                FromIsoFormat(doc.next_expected), doc.data_date,
                doc.refresh_reason, doc.record_count, doc.is_stale)

(***************************************************************************)
(* CacheManager (data/cache/manager.py)                                    *)
(*                                                                         *)
(* A file is absent, unreadable ("corrupt") or holds a content.  An        *)
(* Optional value is the empty sequence (None) or a one-element sequence.  *)
(***************************************************************************)
None == <<>>
Some(x) == <<x>>

Absent == [kind |-> "absent", content |-> <<>>]
Corrupt == [kind |-> "corrupt", content |-> <<>>]
File(x) == [kind |-> "ok", content |-> <<x>>]
Content(f) == f.content[1]

\* the DataFrames handed to put: a row count and the maximum of the first
\* recognised date column ("none": the frame has no such column).  The
\* sampled frames are the frame without columns and frames of 1 .. MaxRows
\* rows with a date column.
NoDateColumn == "none"
Payloads ==
  { fr \in [rows : 0 .. MaxRows, max_date : {NoDateColumn, "2025-11-30"}] :
      fr.rows = 0 <=> fr.max_date = NoDateColumn }

\* the refresh reasons the sampled callers of put pass
PutReasons == {INITIAL_FETCH, FORCED_REFRESH}

\* datetime.now() read by the k-th put: one day later for each put,
\* alternately before and after the check times
RECURSIVE AddDays(_, _)
AddDays(dt, n) == IF n = 0 THEN dt ELSE AddDays(AddDay(dt), n - 1)

ClockAt(k) ==
  Combine(AddDays(MkDate(2025, 12, 18), k),
          IF k % 2 = 1 THEN 9 * 60 + 59 ELSE 15 * 60)

VARIABLES
  data_file,   \* processed/{dataset}.parquet, per identifier
  meta_file,   \* metadata/{dataset}.json, per identifier
  clock,       \* number of put calls so far
  last,        \* the last call: operation, dataset, outcome, returned values
  stale_mark   \* history: a mark_stale rewrote the metadata of the dataset
               \* after its most recent successful put, no invalidate since

cacheVars == <<data_file, meta_file, clock, last, stale_mark>>

VARIABLES
  writer,      \* the put between its two writes: None, or its arguments
  reader,      \* the get between its two reads: None, or what it has read
  cycle,       \* the result of the last cycle of the data service
  marker       \* the mark_stale between its read and its write: None, or
               \* the metadata it has read

callerVars == <<writer, reader, cycle, marker>>
vars == <<schedVars, cacheVars, callerVars>>

\* history: the metadata of the dataset as a call finds it
Found(dataset) ==
  LET mf == meta_file[dataset]
  IN  IF mf.kind # "ok" THEN mf.kind
      ELSE IF Content(mf).is_stale THEN "stale" ELSE "fresh"

\* a call: its operation, dataset and refresh_reason argument ("" when it has
\* none), whether it returned ("ok") or raised, the values it returned, and
\* the metadata it found
Call(op, dataset, arg, outcome, data, meta) ==
  [ op |-> op, dataset |-> dataset, arg |-> arg, outcome |-> outcome,
    data |-> data, meta |-> meta, found |-> Found(dataset) ]

\* pd.read_parquet(data_path): the frame, or an exception
Readable(f) == f.kind = "ok"

\* mutant: get does not catch the exception of an unreadable file
GetUncaught(dataset) ==
  LET df == data_file[dataset]
      mf == meta_file[dataset]
  IN  IF df.kind = "absent" \/ mf.kind = "absent"
        THEN [outcome |-> "ok", data |-> None, meta |-> None]
      ELSE IF ~Readable(df)
        THEN [outcome |-> "raised", data |-> None, meta |-> None]
      ELSE IF ~Readable(mf)
        THEN [outcome |-> "ok", data |-> Some(Content(df)), meta |-> None]
      ELSE [outcome |-> "ok", data |-> Some(Content(df)),
            meta |-> Some(from_json(Content(mf)))]

\* CacheManager.get: the returned pair
get(dataset) ==
  LET df == data_file[dataset]
      mf == meta_file[dataset]
  IN  IF df.kind = "absent" \/ mf.kind = "absent"
        THEN [outcome |-> "ok", data |-> None, meta |-> None]
      ELSE IF ~Readable(df) \/ ~Readable(mf)
        THEN [outcome |-> "ok", data |-> None, meta |-> None]
      ELSE [outcome |-> "ok", data |-> Some(Content(df)),
            meta |-> Some(from_json(Content(mf)))]

\* CacheManager.get_metadata
get_metadata(dataset) ==
  LET mf == meta_file[dataset]
  IN  IF mf.kind = "absent" THEN None
      ELSE IF ~Readable(mf) THEN None
      ELSE Some(from_json(Content(mf)))

\* CacheManager.exists
exists(dataset) ==
  data_file[dataset].kind # "absent" /\ meta_file[dataset].kind # "absent"

\* the "cached" entry of CacheManager.get_cache_status
StatusCached(dataset) == get_metadata(dataset) # None

\* mutant: an entry marked stale is always due
NeedsRefreshStaleIsDue(dataset, now) ==
  LET metadata == get_metadata(dataset)
  IN  IF metadata = None
        THEN should_refresh(dataset, NoFetch, now)
      ELSE IF metadata[1].is_stale
        THEN Decision(TRUE, FETCH_FAILED_USING_STALE, metadata[1].next_expected)
      ELSE should_refresh(dataset, metadata[1].last_fetch, now)

\* CacheManager.needs_refresh; now is the clock the scheduler reads
needs_refresh(dataset, now) ==
  LET metadata == get_metadata(dataset)
  IN  IF metadata = None
        THEN should_refresh(dataset, NoFetch, now)
        ELSE should_refresh(dataset, metadata[1].last_fetch, now)

\* a call of needs_refresh: the clock value it read and what it returned
DecisionCall(dataset, now, decision) ==
  [ op |-> "needs_refresh", dataset |-> dataset, arg |-> "",
    outcome |-> IF decision = ValueError THEN "raised" ELSE "ok",
    data |-> None, meta |-> None, found |-> Found(dataset),
    now |-> now, decision |-> decision ]

\* the clock values a call can read after the k-th put: the day of that put
\* or the next day, before or after the check times, never before the put
RefreshNows(k) ==
  { now \in [date : {ClockAt(k).date, ClockAt(k + 1).date},
             t : {9 * 60 + 59, 15 * 60}] : DtGeq(now, ClockAt(k)) }

\* mutant: the metadata of a put keeps the staleness of the entry it replaces
PutMetadataKeepStale(dataset, now, frame, refresh_reason) ==
  LET decision == should_refresh_at(dataset, now, now)
      data_date == IF frame.max_date = NoDateColumn THEN "unknown"
                   ELSE frame.max_date
      old == get_metadata(dataset)
  IN  CacheMetadata(dataset, now, decision.next_expected, data_date,
                    refresh_reason, frame.rows,
                    old # None /\ old[1].is_stale)

\* mutant: record_count counts the rows of the entry being replaced
PutMetadataOldCount(dataset, now, frame, refresh_reason) ==
  LET decision == should_refresh_at(dataset, now, now)
      data_date == IF frame.max_date = NoDateColumn THEN "unknown"
                   ELSE frame.max_date
      old == get_metadata(dataset)
  IN  CacheMetadata(dataset, now, decision.next_expected, data_date,
                    refresh_reason,
                    IF old # None THEN old[1].record_count ELSE frame.rows,
                    FALSE)

\* CacheManager.put, the metadata it builds before writing, in a process
\* whose timezone is the reference timezone (datetime.now() and
\* datetime.now(uk_tz) read the same wall clock)
PutMetadata(dataset, now, frame, refresh_reason) ==
  LET decision == should_refresh_at(dataset, now, now)
      data_date == IF frame.max_date = NoDateColumn THEN "unknown"
                   ELSE frame.max_date
  IN  CacheMetadata(dataset, now, decision.next_expected, data_date,
                    refresh_reason, frame.rows, FALSE)

\* what a failed write leaves behind: the file as it was, or a partial file
AfterFailedWrite(f) == {f, Corrupt}

\* the datasets the sampled callers operate on: the daily one and a monthly one
SampleDatasets == {"monetary", "housing"}

\* no cycle has run
NoCycle == [dataset |-> "none"]

\* no call of the cache store is in progress
CallersIdle ==
  /\ writer = None
  /\ reader = None
  /\ cycle = NoCycle
  /\ marker = None

CacheInit ==
  /\ data_file = [d \in Identifiers |-> Absent]
  /\ meta_file = [d \in Identifiers |-> Absent]
  /\ clock = 0
  /\ last = Call("init", "monetary", "", "ok", None, None)
  /\ stale_mark = [d \in Identifiers |-> FALSE]
  /\ CallersIdle

\* CacheManager.put: both writes succeed
PutOk(dataset, frame, refresh_reason) ==
  LET now == ClockAt(clock + 1)
      metadata == PutMetadata(dataset, now, frame, refresh_reason)
      stored == [rows |-> frame.rows, max_date |-> frame.max_date,
                 written_at |-> clock + 1]
  IN  /\ clock < MaxPuts
      /\ clock' = clock + 1
      /\ data_file' = [data_file EXCEPT ![dataset] = File(stored)]
      /\ meta_file' = [meta_file EXCEPT ![dataset] = File(to_json(metadata))]
      /\ last' = Call("put", dataset, refresh_reason, "ok", Some(stored), Some(metadata))
      /\ stale_mark' = [stale_mark EXCEPT ![dataset] = FALSE]

\* CacheManager.put: data.to_parquet raises, CacheWriteError
PutDataWriteFails(dataset, frame, refresh_reason) ==
  /\ clock < MaxPuts
  /\ clock' = clock + 1
  /\ \E left \in AfterFailedWrite(data_file[dataset]) :
        data_file' = [data_file EXCEPT ![dataset] = left]
  /\ last' = Call("put", dataset, refresh_reason, "raised", None, None)
  /\ UNCHANGED <<meta_file, stale_mark>>

\* mutant: the failure of the metadata write is logged and put returns
PutMetaWriteSwallowed(dataset, frame, refresh_reason) ==
  LET now == ClockAt(clock + 1)
      metadata == PutMetadata(dataset, now, frame, refresh_reason)
      stored == [rows |-> frame.rows, max_date |-> frame.max_date,
                 written_at |-> clock + 1]
  IN  /\ clock < MaxPuts
      /\ clock' = clock + 1
      /\ data_file' = [data_file EXCEPT ![dataset] = File(stored)]
      /\ \E left \in AfterFailedWrite(meta_file[dataset]) :
            meta_file' = [meta_file EXCEPT ![dataset] = left]
      /\ last' = Call("put", dataset, refresh_reason, "ok", Some(stored),
                      Some(metadata))
      /\ UNCHANGED stale_mark

\* CacheManager.put: meta_path.write_text raises, CacheWriteError
PutMetaWriteFails(dataset, frame, refresh_reason) ==
  LET stored == [rows |-> frame.rows, max_date |-> frame.max_date,
                 written_at |-> clock + 1]
  IN  /\ clock < MaxPuts
      /\ clock' = clock + 1
      /\ data_file' = [data_file EXCEPT ![dataset] = File(stored)]
      /\ \E left \in AfterFailedWrite(meta_file[dataset]) :
            meta_file' = [meta_file EXCEPT ![dataset] = left]
      /\ last' = Call("put", dataset, refresh_reason, "raised", None, None)
      /\ UNCHANGED stale_mark

\* the calls of put of the sampled callers
Put ==
  /\ \E dataset \in SampleDatasets, frame \in Payloads, refresh_reason \in PutReasons :
       PutOk(dataset, frame, refresh_reason)
  /\ UNCHANGED <<schedVars, callerVars>>

PutRaisesOnData ==
  /\ \E dataset \in SampleDatasets, frame \in Payloads, refresh_reason \in PutReasons :
       PutDataWriteFails(dataset, frame, refresh_reason)
  /\ UNCHANGED <<schedVars, callerVars>>

PutRaisesOnMeta ==
  /\ \E dataset \in SampleDatasets, frame \in Payloads, refresh_reason \in PutReasons :
       PutMetaWriteFails(dataset, frame, refresh_reason)
  /\ UNCHANGED <<schedVars, callerVars>>

\* a call of get, its result recorded
Get ==
  \E dataset \in SampleDatasets :
    LET r == get(dataset)
    IN  /\ last' = Call("get", dataset, "", r.outcome, r.data, r.meta)
        /\ UNCHANGED <<data_file, meta_file, clock, stale_mark, schedVars, callerVars>>

\* a call of get_metadata, its result recorded
GetMetadata ==
  \E dataset \in SampleDatasets :
    /\ last' = Call("get_metadata", dataset, "", "ok", None, get_metadata(dataset))
    /\ UNCHANGED <<data_file, meta_file, clock, stale_mark, schedVars, callerVars>>

\* a call of needs_refresh, its result recorded
NeedsRefresh ==
  \E dataset \in SampleDatasets, now \in RefreshNows(clock) :
    /\ last' = DecisionCall(dataset, now, needs_refresh(dataset, now))
    /\ UNCHANGED <<data_file, meta_file, clock, stale_mark, schedVars,
                   callerVars>>

\* mutant: the rewritten metadata counts as a fresh fetch of no rows
StaleMetadataReset(metadata) ==
  CacheMetadata(metadata.dataset, metadata.last_fetch, metadata.next_expected,
                "unknown", FETCH_FAILED_USING_STALE, 0, TRUE)

\* mutant: marking stale moves last_fetch to the expected next update
StaleMetadataAdvancesFetch(metadata) ==
  CacheMetadata(metadata.dataset, metadata.next_expected,
                metadata.next_expected, metadata.data_date,
                FETCH_FAILED_USING_STALE, metadata.record_count, TRUE)

\* CacheManager.mark_stale, the metadata it rewrites
StaleMetadata(metadata) ==
  CacheMetadata(metadata.dataset, metadata.last_fetch, metadata.next_expected,
                metadata.data_date, FETCH_FAILED_USING_STALE,
                metadata.record_count, TRUE)

\* CacheManager.mark_stale; an unreadable metadata file is logged and left.
\* The rewrite of the metadata file itself is taken to succeed.
mark_stale(dataset) ==
  LET mf == meta_file[dataset]
  IN  /\ last' = Call("mark_stale", dataset, "", "ok", None, None)
      /\ IF mf.kind = "absent" \/ ~Readable(mf)
           THEN UNCHANGED <<meta_file, stale_mark>>
           ELSE /\ meta_file' =
                     [meta_file EXCEPT ![dataset] =
                        File(to_json(StaleMetadata(from_json(Content(mf)))))]
                /\ stale_mark' = [stale_mark EXCEPT ![dataset] = TRUE]
      /\ UNCHANGED <<data_file, clock>>

MarkStale ==
  /\ \E dataset \in SampleDatasets : mark_stale(dataset)
  /\ UNCHANGED <<schedVars, callerVars>>

\* mutant: only the payload is removed
InvalidateDataOnly(dataset) ==
  /\ data_file' = [data_file EXCEPT ![dataset] = Absent]
  /\ last' = Call("invalidate", dataset, "", "ok", None, None)
  /\ stale_mark' = [stale_mark EXCEPT ![dataset] = FALSE]
  /\ UNCHANGED <<meta_file, clock>>

\* CacheManager.invalidate: every unlink succeeds
invalidate(dataset) ==
  /\ data_file' = [data_file EXCEPT ![dataset] = Absent]
  /\ meta_file' = [meta_file EXCEPT ![dataset] = Absent]
  /\ last' = Call("invalidate", dataset, "", "ok", None, None)
  /\ stale_mark' = [stale_mark EXCEPT ![dataset] = FALSE]
  /\ UNCHANGED clock

\* CacheManager.invalidate: the unlink of the payload raises
InvalidateDataUnlinkFails(dataset) ==
  /\ data_file[dataset].kind # "absent"
  /\ last' = Call("invalidate", dataset, "", "raised", None, None)
  /\ UNCHANGED <<data_file, meta_file, clock, stale_mark>>

\* CacheManager.invalidate: the unlink of the metadata raises
InvalidateMetaUnlinkFails(dataset) ==
  /\ meta_file[dataset].kind # "absent"
  /\ data_file' = [data_file EXCEPT ![dataset] = Absent]
  /\ last' = Call("invalidate", dataset, "", "raised", None, None)
  /\ UNCHANGED <<meta_file, clock, stale_mark>>

Invalidate ==
  /\ \E dataset \in SampleDatasets : invalidate(dataset)
  /\ UNCHANGED <<schedVars, callerVars>>

InvalidateRaisesOnData ==
  /\ \E dataset \in SampleDatasets : InvalidateDataUnlinkFails(dataset)
  /\ UNCHANGED <<schedVars, callerVars>>

InvalidateRaisesOnMeta ==
  /\ \E dataset \in SampleDatasets : InvalidateMetaUnlinkFails(dataset)
  /\ UNCHANGED <<schedVars, callerVars>>

\* a file of the cache directory becomes unreadable
CorruptData ==
  \E dataset \in SampleDatasets :
    /\ data_file[dataset].kind # "absent"
    /\ data_file' = [data_file EXCEPT ![dataset] = Corrupt]
    /\ last' = Call("corrupt", dataset, "", "ok", None, None)
    /\ UNCHANGED <<meta_file, clock, stale_mark, schedVars, callerVars>>

CorruptMeta ==
  \E dataset \in SampleDatasets :
    /\ meta_file[dataset].kind # "absent"
    /\ meta_file' = [meta_file EXCEPT ![dataset] = Corrupt]
    /\ last' = Call("corrupt", dataset, "", "ok", None, None)
    /\ UNCHANGED <<data_file, clock, stale_mark, schedVars,
                   callerVars>>


(***************************************************************************)
(* Two callers of one process: a put and a get take their steps in any     *)
(* order.  CacheManager holds no lock, so the steps of the two calls       *)
(* interleave at each file operation.                                      *)
(***************************************************************************)
\* put, first write: data.to_parquet(data_path)
PutWritesData ==
  \E dataset \in SampleDatasets, frame \in Payloads, refresh_reason \in PutReasons :
    LET now == ClockAt(clock + 1)
        metadata == PutMetadata(dataset, now, frame, refresh_reason)
        stored == [rows |-> frame.rows, max_date |-> frame.max_date,
                   written_at |-> clock + 1]
    IN  /\ writer = None
        /\ clock < MaxPuts
        /\ clock' = clock + 1
        /\ data_file' = [data_file EXCEPT ![dataset] = File(stored)]
        /\ writer' = Some([dataset |-> dataset, arg |-> refresh_reason,
                           stored |-> stored, metadata |-> metadata])
        /\ UNCHANGED <<meta_file, last, stale_mark, reader, cycle, marker,
                       schedVars>>

\* put, second write: meta_path.write_text(metadata.to_json()), and return
PutWritesMeta ==
  /\ writer # None
  /\ LET w == writer[1]
     IN  /\ meta_file' = [meta_file EXCEPT ![w.dataset] = File(to_json(w.metadata))]
         /\ last' = Call("put", w.dataset, w.arg, "ok", Some(w.stored),
                         Some(w.metadata))
         /\ stale_mark' = [stale_mark EXCEPT ![w.dataset] = FALSE]
  /\ writer' = None
  /\ UNCHANGED <<data_file, clock, reader, cycle, marker, schedVars>>

\* get, up to pd.read_parquet(data_path): a miss or an unreadable payload
\* ends the call
GetReadsData ==
  \E dataset \in SampleDatasets :
    LET df == data_file[dataset]
        mf == meta_file[dataset]
    IN  /\ reader = None
        /\ IF df.kind = "absent" \/ mf.kind = "absent" \/ ~Readable(df)
             THEN /\ last' = Call("get", dataset, "", "ok", None, None)
                  /\ UNCHANGED reader
             ELSE /\ reader' = Some([dataset |-> dataset, data |-> Content(df)])
                  /\ UNCHANGED last
        /\ UNCHANGED <<data_file, meta_file, clock, stale_mark, writer, cycle,
                       marker, schedVars>>

\* get, CacheMetadata.from_json(meta_path.read_text()), and return
GetReadsMeta ==
  /\ reader # None
  /\ LET r == reader[1]
         mf == meta_file[r.dataset]
     IN  last' = IF Readable(mf)
                   THEN Call("get", r.dataset, "", "ok", Some(r.data),
                             Some(from_json(Content(mf))))
                   ELSE Call("get", r.dataset, "", "ok", None, None)
  /\ reader' = None
  /\ UNCHANGED <<data_file, meta_file, clock, stale_mark, writer, cycle,
                 marker, schedVars>>

\* mark_stale, up to CacheMetadata.from_json(meta_path.read_text()): a
\* missing or unreadable metadata file ends the call
MarkStaleReads ==
  \E dataset \in SampleDatasets :
    LET mf == meta_file[dataset]
    IN  /\ marker = None
        /\ IF mf.kind = "absent" \/ ~Readable(mf)
             THEN /\ last' = Call("mark_stale", dataset, "", "ok", None, None)
                  /\ UNCHANGED marker
             ELSE /\ marker' = Some([dataset |-> dataset,
                                     metadata |-> from_json(Content(mf))])
                  /\ UNCHANGED last
        /\ UNCHANGED <<data_file, meta_file, clock, stale_mark, writer, reader,
                       cycle, schedVars>>

\* mark_stale, meta_path.write_text(metadata.to_json()) of the metadata it
\* has read, marked stale, and return
MarkStaleWrites ==
  /\ marker # None
  /\ LET m == marker[1]
     IN  /\ meta_file' = [meta_file EXCEPT ![m.dataset] =
                            File(to_json(StaleMetadata(m.metadata)))]
         /\ stale_mark' = [stale_mark EXCEPT ![m.dataset] = TRUE]
         /\ last' = Call("mark_stale", m.dataset, "", "ok", None, None)
  /\ marker' = None
  /\ UNCHANGED <<data_file, clock, writer, reader, cycle, schedVars>>

(***************************************************************************)
(* DataService (app/services/data_service.py): one cycle of                *)
(* get_dashboard_data for one dataset.  The fetch collaborator returns a   *)
(* FetchResult, successful with a frame or failed; the domain object a     *)
(* transformer builds is identified with the frame it was built from.      *)
(***************************************************************************)
\* mutant: a forced refresh is reported as an initial fetch
ShouldRefreshForcedAsInitial(dataset, cached_meta, force_refresh, now) ==
  IF force_refresh \/ cached_meta = None
    THEN [should_refresh |-> TRUE, reason |-> INITIAL_FETCH]
  ELSE LET decision == should_refresh(dataset, cached_meta[1].last_fetch, now)
       IN  [should_refresh |-> decision.should_refresh,
            reason |-> decision.reason]

\* DataService._should_refresh
_should_refresh(dataset, cached_meta, force_refresh, now) ==
  IF force_refresh
    THEN [should_refresh |-> TRUE, reason |-> FORCED_REFRESH]
  ELSE IF cached_meta = None
    THEN [should_refresh |-> TRUE, reason |-> INITIAL_FETCH]
  ELSE LET decision == should_refresh(dataset, cached_meta[1].last_fetch, now)
       IN  [should_refresh |-> decision.should_refresh,
            reason |-> decision.reason]

\* the frame of a payload, as fetched or as read back from the cache
Frame(df) == [rows |-> df.rows, max_date |-> df.max_date]

\* monetary_transformer.transform / _transform_cached_housing /
\* _transform_cached_economic of a cached frame: the latter two return None
\* for an empty frame
TransformCached(dataset, cached_df) ==
  IF dataset # "monetary" /\ cached_df.rows = 0 THEN None
  ELSE Some(Frame(cached_df))

\* the frame a successful fetch returns: MaxRows rows with a date column
FetchedFrames ==
  {fr \in Payloads : fr.max_date # NoDateColumn /\ fr.rows = MaxRows}

\* the clock the scheduler reads in a cycle after the k-th put: the
\* afternoon of the day of that put, or the instant the put of this cycle
\* reads
CycleNows(k) ==
  { now \in {Combine(ClockAt(k).date, 15 * 60), ClockAt(k + 1)} :
      DtGeq(now, ClockAt(k)) /\ DtGeq(ClockAt(k + 1), now) }

\* what a cycle returned for its dataset: the arguments, what get returned,
\* whether a refresh was due and why, whether the fetch collaborator was
\* called and succeeded, whether mark_stale was called, the data and the
\* metadata returned, the stale-data warning and the error entry
CycleResult(dataset, force_refresh, now, cached, due, fetch, marked, outcome, data, meta, stale_warning) ==
  [ dataset |-> dataset, force_refresh |-> force_refresh, now |-> now,
    cached_df |-> cached.data, cached_meta |-> cached.meta,
    due |-> due, fetch |-> fetch, marked |-> marked, outcome |-> outcome,
    data |-> data, meta |-> meta, stale_warning |-> stale_warning,
    error |-> (outcome = "ok" /\ data = None) ]

\* mutant: a failed fetch is reported as missing data, the cache is not used
GetDataNoFallback(dataset, force_refresh, fetched, now) ==
  LET cached == get(dataset)
      sr == _should_refresh(dataset, cached.meta, force_refresh, now)
  IN  IF ~sr.should_refresh /\ cached.data # None
        THEN /\ cycle' = CycleResult(dataset, force_refresh, now, cached, sr,
                                     "not_called", FALSE, "ok",
                                     TransformCached(dataset, cached.data[1]),
                                     cached.meta, FALSE)
             /\ UNCHANGED cacheVars
      ELSE IF fetched # None
        THEN /\ PutOk(dataset, fetched[1], sr.reason)
             /\ cycle' = CycleResult(dataset, force_refresh, now, cached, sr,
                                     "ok", FALSE, "ok",
                                     Some(Frame(fetched[1])),
                                     Some(PutMetadata(dataset, ClockAt(clock + 1),
                                                      fetched[1], sr.reason)),
                                     FALSE)
      ELSE /\ cycle' = CycleResult(dataset, force_refresh, now, cached, sr,
                                   "failed", FALSE, "ok", None, None, FALSE)
           /\ UNCHANGED cacheVars

\* DataService._get_monetary_data (_get_housing_data, _get_economic_data)
\* and the error entry of get_dashboard_data, the writes of put succeeding
_get_data(dataset, force_refresh, fetched, now) ==
  LET cached == get(dataset)
      sr == _should_refresh(dataset, cached.meta, force_refresh, now)
  IN  IF ~sr.should_refresh /\ cached.data # None
        THEN /\ cycle' = CycleResult(dataset, force_refresh, now, cached, sr,
                                     "not_called", FALSE, "ok",
                                     TransformCached(dataset, cached.data[1]),
                                     cached.meta, FALSE)
             /\ UNCHANGED cacheVars
      ELSE IF fetched # None
        THEN /\ PutOk(dataset, fetched[1], sr.reason)
             /\ cycle' = CycleResult(dataset, force_refresh, now, cached, sr,
                                     "ok", FALSE, "ok",
                                     Some(Frame(fetched[1])),
                                     Some(PutMetadata(dataset, ClockAt(clock + 1),
                                                      fetched[1], sr.reason)),
                                     FALSE)
      ELSE IF cached.data # None /\ cached.meta # None
        THEN /\ mark_stale(dataset)
             /\ cycle' = CycleResult(dataset, force_refresh, now, cached, sr,
                                     "failed", TRUE, "ok",
                                     TransformCached(dataset, cached.data[1]),
                                     cached.meta, TRUE)
      ELSE /\ cycle' = CycleResult(dataset, force_refresh, now, cached, sr,
                                   "failed", FALSE, "ok", None, None, FALSE)
           /\ UNCHANGED cacheVars

\* the same with a write of put failing: CacheWriteError leaves the cycle
GetDataPutRaises(dataset, force_refresh, fetched, now) ==
  LET cached == get(dataset)
      sr == _should_refresh(dataset, cached.meta, force_refresh, now)
  IN  /\ sr.should_refresh \/ cached.data = None
      /\ \/ PutDataWriteFails(dataset, fetched, sr.reason)
         \/ PutMetaWriteFails(dataset, fetched, sr.reason)
      /\ cycle' = CycleResult(dataset, force_refresh, now, cached, sr,
                              "ok", FALSE, "raised", None, None, FALSE)

\* a cycle of the data service for one dataset
Cycle ==
  /\ \E dataset \in SampleDatasets, force_refresh \in BOOLEAN,
        fetched \in {None} \cup {Some(fr) : fr \in FetchedFrames},
        now \in CycleNows(clock) :
       _get_data(dataset, force_refresh, fetched, now)
  /\ UNCHANGED <<schedVars, writer, reader, marker>>

CycleRaisesOnPut ==
  /\ \E dataset \in SampleDatasets, force_refresh \in BOOLEAN,
        fetched \in FetchedFrames, now \in CycleNows(clock) :
       GetDataPutRaises(dataset, force_refresh, fetched, now)
  /\ UNCHANGED <<schedVars, writer, reader, marker>>

\* the identifiers outside the configured dataset set
Unconfigured == Identifiers \ DATASETS

\* CacheManager.put: scheduler.should_refresh raises before any write
PutConfigError(dataset, frame, refresh_reason) ==
  LET now == ClockAt(clock + 1)
  IN  /\ clock < MaxPuts
      /\ should_refresh(dataset, now, now) = ValueError
      /\ clock' = clock + 1
      /\ last' = Call("put", dataset, refresh_reason, "raised", None, None)
      /\ UNCHANGED <<data_file, meta_file, stale_mark>>

\* the calls of the cache store with an identifier that is not configured
PutUnconfigured ==
  /\ \E dataset \in Unconfigured, frame \in Payloads, refresh_reason \in PutReasons :
       PutConfigError(dataset, frame, refresh_reason)
  /\ UNCHANGED <<schedVars, callerVars>>

GetUnconfigured ==
  \E dataset \in Unconfigured :
    LET r == get(dataset)
    IN  /\ last' = Call("get", dataset, "", r.outcome, r.data, r.meta)
        /\ UNCHANGED <<data_file, meta_file, clock, stale_mark, schedVars,
                       callerVars>>

NeedsRefreshUnconfigured ==
  \E dataset \in Unconfigured, now \in RefreshNows(clock) :
    /\ last' = DecisionCall(dataset, now, needs_refresh(dataset, now))
    /\ UNCHANGED <<data_file, meta_file, clock, stale_mark, schedVars,
                   callerVars>>

MarkStaleUnconfigured ==
  /\ \E dataset \in Unconfigured : mark_stale(dataset)
  /\ UNCHANGED <<schedVars, callerVars>>

InvalidateUnconfigured ==
  /\ \E dataset \in Unconfigured : invalidate(dataset)
  /\ UNCHANGED <<schedVars, callerVars>>

\* the scheduler query is idle while the cache store runs
SchedIdle ==
  /\ q_dataset = "monetary"
  /\ q_last_fetch = NoFetch
  /\ q_now = ClockAt(0)
  /\ q_decision = NoDecision
  /\ q_entry = "none"
  /\ q_schedule = NoSchedule
  /\ q_custom = NoCustom
  /\ q_next = NoFetch

\* the cache store
Init == SchedIdle /\ CacheInit
Next ==
  \/ Put
  \/ PutRaisesOnData
  \/ PutRaisesOnMeta
  \/ Get
  \/ GetMetadata
  \/ MarkStale
  \/ Invalidate
  \/ InvalidateRaisesOnData
  \/ InvalidateRaisesOnMeta
  \/ CorruptData
  \/ CorruptMeta
Spec == Init /\ [][Next]_vars

\* the scheduler alone, on every sampled query
SchedStart == SchedInit /\ CacheInit
\* one call of should_refresh_at(q_dataset, q_last_fetch, q_now)
Decide ==
  /\ q_entry = "none"
  /\ q_entry' = "should_refresh_at"
  /\ q_decision' = should_refresh_at(q_dataset, q_last_fetch, q_now)
  /\ UNCHANGED <<q_dataset, q_last_fetch, q_now, q_schedule, q_custom, q_next,
               cacheVars, callerVars>>

SchedNext == Decide
SchedSpec == SchedStart /\ [][SchedNext]_vars

\* the scheduler alone, on the queries whose last_fetch is not later than now
DueStart == DueInit /\ CacheInit
DueSpec == DueStart /\ [][SchedNext]_vars

\* one call of should_refresh(q_dataset, q_last_fetch), the clock reading q_now
DecideNow ==
  /\ q_entry = "none"
  /\ q_entry' = "should_refresh"
  /\ q_decision' = should_refresh(q_dataset, q_last_fetch, q_now)
  /\ UNCHANGED <<q_dataset, q_last_fetch, q_now, q_schedule, q_custom, q_next,
               cacheVars, callerVars>>

\* one call of get_schedule(q_dataset)
GetSchedule ==
  /\ q_entry = "none"
  /\ q_entry' = "get_schedule"
  /\ q_schedule' = get_schedule(q_dataset)
  /\ UNCHANGED <<q_dataset, q_last_fetch, q_now, q_decision, q_custom, q_next,
               cacheVars, callerVars>>

\* the entry points of the scheduler, on identifiers configured or not
EntryStart == EntryInit /\ CacheInit
EntryNext ==
  \/ Decide
  \/ DecideNow
  \/ GetSchedule
EntrySpec == EntryStart /\ [][EntryNext]_vars

\* one call of _next_business_day(q_now.date, q_now.time())
NextBusinessDay ==
  /\ q_entry = "none"
  /\ q_entry' = "_next_business_day"
  /\ q_next' = _next_business_day(q_now.date, q_now.t)
  /\ UNCHANGED <<q_dataset, q_last_fetch, q_now, q_decision, q_schedule,
               q_custom, cacheVars, callerVars>>

\* the search for a business day alone, from every sampled instant
BusinessDayStart == BusinessDayInit /\ CacheInit
BusinessDayNext == NextBusinessDay
BusinessDaySpec == BusinessDayStart /\ [][BusinessDayNext]_vars

(***************************************************************************)
(* The clock of put.  put stamps last_fetch with datetime.now(), the       *)
(* wall clock of the timezone of the process without tzinfo, and the       *)
(* scheduler gives it tzinfo = uk_tz with replace(), which keeps the       *)
(* wall-clock fields; the scheduler's own now is datetime.now(uk_tz).      *)
(***************************************************************************)
\* date - timedelta(days=1)
PrevDay(dt) ==
  IF dt.d > 1 THEN MkDate(dt.y, dt.m, dt.d - 1)
  ELSE IF dt.m > 1 THEN MkDate(dt.y, dt.m - 1, DaysInMonth(dt.y, dt.m - 1))
  ELSE MkDate(dt.y - 1, 12, 31)

\* the minutes the wall clock of the process is ahead of the wall clock of
\* Europe/London in June: a process in Europe/London, in UTC, in
\* Pacific/Auckland
LocalOffsets == {0, -60, 660}

\* datetime.now() at the instant datetime.now(uk_tz) returns now
LocalNow(now, offset) ==
  LET t == now.t + offset
  IN  IF t < 0 THEN Combine(PrevDay(now.date), t + 24 * 60)
      ELSE IF t >= 24 * 60 THEN Combine(AddDay(now.date), t - 24 * 60)
      ELSE Combine(now.date, t)

\* the instants put is called at: the week from Monday 2026-06-15, which
\* holds the publication days of both monthly datasets
StampInstants ==
  [date : {MkDate(2026, 6, d) : d \in 15 .. 21},
   t : {9 * 60 + 59, 10 * 60, 10 * 60 + 30, 14 * 60 + 59, 15 * 60,
        23 * 60 + 30}]

StampInit ==
  /\ q_dataset \in DATASETS
  /\ q_now \in StampInstants
  /\ q_last_fetch = NoFetch
  /\ q_decision = NoDecision
  /\ q_entry = "none"
  /\ q_schedule = NoSchedule
  /\ q_custom = NoCustom
  /\ q_next = NoFetch

\* CacheManager.put up to the metadata it builds: last_fetch is the clock of
\* the process, next_expected comes from the scheduler called with it
PutStamp ==
  /\ q_entry = "none"
  /\ \E offset \in LocalOffsets :
       LET now == LocalNow(q_now, offset)
       IN  /\ q_last_fetch' = now
           /\ q_decision' = should_refresh(q_dataset, now, q_now)
  /\ q_entry' = "put"
  /\ UNCHANGED <<q_dataset, q_now, q_schedule, q_custom, q_next, cacheVars,
               callerVars>>

\* CacheManager.needs_refresh at the instant of that put, on the last_fetch
\* it stored
NeedsRefreshAtOnce ==
  /\ q_entry = "put"
  /\ q_entry' = "needs_refresh"
  /\ q_decision' = should_refresh(q_dataset, q_last_fetch, q_now)
  /\ UNCHANGED <<q_dataset, q_last_fetch, q_now, q_schedule, q_custom, q_next,
               cacheVars, callerVars>>

\* a put and the needs_refresh that follows it at once
StampStart == StampInit /\ CacheInit
StampNext ==
  \/ PutStamp
  \/ NeedsRefreshAtOnce
StampSpec == StampStart /\ [][StampNext]_vars

\* one call of _check_monthly_refresh(q_custom, q_last_fetch, q_now)
CheckMonthly ==
  /\ q_entry = "none"
  /\ q_entry' = "_check_monthly_refresh"
  /\ q_decision' = _check_monthly_refresh(q_custom, q_last_fetch, q_now)
  /\ UNCHANGED <<q_dataset, q_last_fetch, q_now, q_schedule, q_custom, q_next,
               cacheVars, callerVars>>

\* the monthly check alone, on schedules of every publication day
MonthlyStart == MonthlyInit /\ CacheInit
MonthlyNext == CheckMonthly
MonthlySpec == MonthlyStart /\ [][MonthlyNext]_vars

\* the cache store asked whether its entries are due
RefreshNext ==
  \/ Put
  \/ MarkStale
  \/ Invalidate
  \/ CorruptMeta
  \/ NeedsRefresh
RefreshSpec == Init /\ [][RefreshNext]_vars

\* the cache store called with identifiers configured or not
ConfigNext ==
  \/ Put
  \/ MarkStale
  \/ PutUnconfigured
  \/ GetUnconfigured
  \/ NeedsRefreshUnconfigured
  \/ MarkStaleUnconfigured
  \/ InvalidateUnconfigured
ConfigSpec == Init /\ [][ConfigNext]_vars

\* a put and a get of one process taking their steps in any order
RaceNext ==
  \/ PutWritesData
  \/ PutWritesMeta
  \/ GetReadsData
  \/ GetReadsMeta
RaceSpec == Init /\ [][RaceNext]_vars

\* a put and a mark_stale of one process taking their steps in any order
MarkRaceNext ==
  \/ PutWritesData
  \/ PutWritesMeta
  \/ MarkStaleReads
  \/ MarkStaleWrites
MarkRaceSpec == Init /\ [][MarkRaceNext]_vars

\* the data service running cycles on a cache whose files can be lost
CycleNext ==
  \/ Cycle
  \/ CycleRaisesOnPut
  \/ CorruptData
  \/ Invalidate
CycleSpec == Init /\ [][CycleNext]_vars

(***************************************************************************)
(* Properties of the refresh scheduler, checked under SchedSpec.           *)
(***************************************************************************)
Decided == q_decision # NoDecision

\* C1: for the daily dataset with last_fetch present, the decision carries the
\* reason of the first rule that matches, in the order AlreadyCurrent (fetched
\* on now's date at or after check_time), CachedWeekend (now's date is a
\* weekend or a holiday), CachedBeforeCheckTime (now's time of day is before
\* check_time), DailyUpdateExpected; it asks for a refresh exactly in the
\* last case.
C1_DailyRuleOrder ==
  (Decided /\ q_dataset = "monetary" /\ q_last_fetch # NoFetch) =>
    LET check_time == SCHEDULES[q_dataset].check_time
        rule ==
          IF q_last_fetch.date = q_now.date /\ q_last_fetch.t >= check_time
            THEN ALREADY_CURRENT
          ELSE IF Weekday(q_now.date) \in {5, 6} \/ InUkHolidays(q_now.date)
            THEN CACHED_WEEKEND
          ELSE IF q_now.t < check_time
            THEN CACHED_BEFORE_CHECK_TIME
          ELSE DAILY_UPDATE_EXPECTED
    IN  /\ q_decision.reason = rule
        /\ q_decision.should_refresh <=> (rule = DAILY_UPDATE_EXPECTED)

\* a daily refresh is decided although the last fetch was made the same day,
\* before check_time
C1_Witness ==
  /\ Decided /\ q_dataset = "monetary"
  /\ q_last_fetch # NoFetch /\ q_last_fetch.date = q_now.date
  /\ q_last_fetch.t < SCHEDULES[q_dataset].check_time
  /\ q_decision.reason = DAILY_UPDATE_EXPECTED /\ q_decision.should_refresh

\* C2: for a monthly dataset with last_fetch present, the decision carries the
\* reason of the first rule that matches, in the order AlreadyCurrent (fetched
\* in now's year and month on a day >= publication_day), CachedBeforeReleaseDay
\* (now's day of month < publication_day), CachedBeforeCheckTime (now on the
\* publication day before check_time), MonthlyUpdateExpected; it asks for a
\* refresh exactly in the last case.
C2_MonthlyRuleOrder ==
  (Decided /\ q_dataset \in {"housing", "economic"} /\ q_last_fetch # NoFetch) =>
    LET check_time == SCHEDULES[q_dataset].check_time
        publication_day == SCHEDULES[q_dataset].publication_day
        rule ==
          IF /\ q_last_fetch.date.y = q_now.date.y
             /\ q_last_fetch.date.m = q_now.date.m
             /\ q_last_fetch.date.d >= publication_day
            THEN ALREADY_CURRENT
          ELSE IF q_now.date.d < publication_day
            THEN CACHED_BEFORE_RELEASE_DAY
          ELSE IF q_now.date.d = publication_day /\ q_now.t < check_time
            THEN CACHED_BEFORE_CHECK_TIME
          ELSE MONTHLY_UPDATE_EXPECTED
    IN  /\ q_decision.reason = rule
        /\ q_decision.should_refresh <=> (rule = MONTHLY_UPDATE_EXPECTED)

\* on the publication day before check_time, with a fetch made earlier in the
\* same month, the cache is kept until check_time
C2_Witness ==
  /\ Decided /\ q_dataset = "housing"
  /\ q_last_fetch # NoFetch
  /\ q_last_fetch.date.y = q_now.date.y /\ q_last_fetch.date.m = q_now.date.m
  /\ q_last_fetch.date.d < SCHEDULES[q_dataset].publication_day
  /\ q_now.date.d = SCHEDULES[q_dataset].publication_day
  /\ q_decision.reason = CACHED_BEFORE_CHECK_TIME /\ ~q_decision.should_refresh

\* C3: with last_fetch absent every configured dataset is refreshed with the
\* reason InitialFetch, whatever the day of week, holiday status or time.
C3_InitialFetch ==
  (Decided /\ q_last_fetch = NoFetch) =>
    (q_decision.should_refresh /\ q_decision.reason = INITIAL_FETCH)

\* an initial fetch is decided on a holiday, before the check time
C3_Witness ==
  /\ Decided /\ q_last_fetch = NoFetch
  /\ InUkHolidays(q_now.date) /\ q_now.t < SCHEDULES[q_dataset].check_time
  /\ q_decision.should_refresh /\ q_decision.reason = INITIAL_FETCH

\* the first date strictly after dt that is a weekday and not a holiday
FirstBusinessDayAfter(dt) ==
  LET Business(k) ==
        Weekday(AddDays(dt, k)) \in 0 .. 4 /\ ~InUkHolidays(AddDays(dt, k))
      gap == CHOOSE k \in 1 .. 7 :
               Business(k) /\ \A j \in 1 .. (k - 1) : ~Business(j)
  IN  AddDays(dt, gap)

\* C15: next_expected is the value stated for the rule that matched.  Daily:
\* CachedBeforeCheckTime gives now's date at check_time; CachedWeekend and
\* DailyUpdateExpected give the first business day strictly after now's date
\* at check_time.  Monthly: CachedBeforeReleaseDay and CachedBeforeCheckTime
\* give the publication day of now's month at check_time;
\* MonthlyUpdateExpected gives the publication day of the following month at
\* check_time, January of the next year after December.
C15_NextExpectedPerRule ==
  (Decided /\ q_last_fetch # NoFetch) =>
    LET check_time == SCHEDULES[q_dataset].check_time
        publication_day == SCHEDULES[q_dataset].publication_day
        today == q_now.date
        reason == q_decision.reason
        next == q_decision.next_expected
        following == IF today.m = 12 THEN [y |-> today.y + 1, m |-> 1]
                                     ELSE [y |-> today.y, m |-> today.m + 1]
    IN  IF q_dataset = "monetary"
          THEN /\ reason = CACHED_BEFORE_CHECK_TIME =>
                    next = [date |-> today, t |-> check_time]
               /\ reason \in {CACHED_WEEKEND, DAILY_UPDATE_EXPECTED} =>
                    next = [date |-> FirstBusinessDayAfter(today),
                            t |-> check_time]
          ELSE /\ reason \in {CACHED_BEFORE_RELEASE_DAY,
                               CACHED_BEFORE_CHECK_TIME} =>
                    next = [date |-> [y |-> today.y, m |-> today.m,
                                      d |-> publication_day],
                            t |-> check_time]
               /\ reason = MONTHLY_UPDATE_EXPECTED =>
                    next = [date |-> [y |-> following.y, m |-> following.m,
                                      d |-> publication_day],
                            t |-> check_time]

\* a monthly refresh decided in December expects the next release in January
\* of the following year
C15_Witness ==
  /\ Decided /\ q_last_fetch # NoFetch /\ q_dataset = "economic"
  /\ q_now.date.m = 12
  /\ q_decision.reason = MONTHLY_UPDATE_EXPECTED
  /\ q_decision.next_expected =
       [date |-> [y |-> q_now.date.y + 1, m |-> 1, d |-> 15], t |-> 12 * 60]

\* the instants from `from` up to, not including, `to`: every day in
\* between at midnight, around the three check times and at the last minute
InstantsBetween(from, to) ==
  LET gap == ToOrdinal(to.date) - ToOrdinal(from.date)
  IN  { i \in [date : {AddDays(from.date, k) : k \in 0 .. gap},
               t : SampleTimes \cup {0, 23 * 60 + 59}] :
          DtGeq(i, from) /\ DtLess(i, to) }

\* C16 (checked under DueSpec): next_expected is the next instant at which a
\* refresh becomes due.  When the decision for last_fetch <= now keeps the
\* cache with next_expected = T, the decision for the same last_fetch keeps
\* the cache at every instant from now up to T and asks for a refresh at T.
C16_NextExpectedIsNextDue ==
  (Decided /\ ~q_decision.should_refresh) =>
    LET T == q_decision.next_expected
    IN  /\ \A i \in InstantsBetween(q_now, T) :
             ~should_refresh_at(q_dataset, q_last_fetch, i).should_refresh
        /\ should_refresh_at(q_dataset, q_last_fetch, T).should_refresh

\* the daily dataset fetched on Christmas Eve after the check time is due
\* again on the first business day after the substitute of Boxing Day
C16_Witness ==
  /\ Decided /\ q_dataset = "monetary"
  /\ q_now.date = MkDate(2026, 12, 24) /\ q_last_fetch.date = q_now.date
  /\ q_decision.reason = ALREADY_CURRENT
  /\ q_decision.next_expected = Combine(MkDate(2026, 12, 29), 10 * 60)
  /\ Cardinality(InstantsBetween(q_now, q_decision.next_expected)) > 20

\* C17: for every dataset whose schedule sets weekdays_only (the three
\* configured datasets) and every present last_fetch, no refresh is decided
\* when now's date is a weekend or a holiday.
C17_BusinessDayGatesRefresh ==
  ( /\ Decided /\ q_last_fetch # NoFetch
    /\ SCHEDULES[q_dataset].weekdays_only
    /\ (Weekday(q_now.date) \in {5, 6} \/ InUkHolidays(q_now.date)) )
    => ~q_decision.should_refresh

(***************************************************************************)
(* Properties of the scheduler's entry points, checked under EntrySpec.    *)
(***************************************************************************)
\* C13: should_refresh, should_refresh_at and get_schedule called with an
\* identifier that is not in the schedule table raise ValueError and return
\* no decision and no schedule, whether last_fetch is present or absent.
C13_UnknownDatasetRaises ==
  (q_entry # "none" /\ q_dataset \notin DOMAIN SCHEDULES) =>
    /\ q_entry \in {"should_refresh", "should_refresh_at"} =>
          /\ q_decision = ValueError
          /\ q_decision.reason \notin RefreshReason
    /\ q_entry = "get_schedule" =>
          q_schedule.outcome = "ValueError" /\ q_schedule.value = <<>>

\* should_refresh_at was called for an unknown identifier with last_fetch
\* absent and has raised
C13_Witness ==
  /\ q_entry = "should_refresh_at" /\ q_dataset = UNKNOWN
  /\ q_last_fetch = NoFetch
  /\ q_decision = ValueError

(***************************************************************************)
(* Properties of the cache store, checked under Spec.                      *)
(***************************************************************************)
PutReturned == last.op = "put" /\ last.outcome = "ok"

C5_GetBothOrNeither ==
  last.op = "get" =>
    /\ last.outcome = "ok"
    /\ (last.data = None) <=> (last.meta = None)
    /\ ( \/ ~Readable(data_file[last.dataset])
         \/ ~Readable(meta_file[last.dataset]) )
         => (last.data = None /\ last.meta = None)
    /\ (Readable(data_file[last.dataset]) /\ Readable(meta_file[last.dataset]))
         => (last.data # None /\ last.meta # None)

\* get was called on a readable payload whose metadata file is unreadable
C5_Witness ==
  /\ last.op = "get" /\ last.data = None /\ last.meta = None
  /\ Readable(data_file[last.dataset])
  /\ meta_file[last.dataset].kind = "corrupt"

\* C6: after a successful put(d, payload, reason), get(d) returns a payload
\* of the row count written and the metadata put returned, which has
\* dataset = d, record_count = the row count, refresh_reason = reason and
\* is_stale = false.
C6_PutGetRoundTrip ==
  PutReturned =>
    LET r == get(last.dataset)
        written == last.data[1]
        returned == last.meta[1]
    IN  /\ r.outcome = "ok" /\ r.data # None /\ r.meta # None
        /\ r.data[1].rows = written.rows
        /\ r.meta[1] = returned
        /\ returned.dataset = last.dataset
        /\ returned.record_count = written.rows
        /\ returned.refresh_reason = last.arg
        /\ returned.is_stale = FALSE

\* a put of MaxRows rows has replaced an entry of another row count
C6_Witness ==
  /\ PutReturned /\ clock = 2
  /\ last.data[1].rows = MaxRows /\ last.arg = FORCED_REFRESH
  /\ get(last.dataset).meta[1].record_count = MaxRows

\* C7: whenever get returns a pair, its metadata was written by the put that
\* wrote the payload: record_count is the payload's row count and last_fetch
\* the time of that put.
C7_PairFromOnePut ==
  \A d \in DATASETS :
    LET r == get(d)
    IN  r.data # None =>
          /\ r.meta[1].record_count = r.data[1].rows
          /\ r.meta[1].last_fetch = ClockAt(r.data[1].written_at)

\* C8: the caller sees metadata for a dataset exactly when it can obtain a
\* payload for it: get_metadata is not None, and the status reports the
\* dataset cached, exactly when get returns a payload.
C8_MetadataIffPayload ==
  \A d \in DATASETS :
    /\ (get_metadata(d) # None) <=> (get(d).data # None)
    /\ StatusCached(d) <=> (get(d).data # None)

C10_InvalidateRemovesBoth ==
  [][ \A d \in DATASETS :
        (last'.op = "invalidate" /\ last'.dataset = d) =>
          /\ \A e \in DATASETS \ {d} :
               data_file'[e] = data_file[e] /\ meta_file'[e] = meta_file[e]
          /\ last'.outcome = "ok" =>
               /\ data_file'[d] = Absent /\ meta_file'[d] = Absent
               /\ get(d)'.data = None /\ get(d)'.meta = None
               /\ ~exists(d)'
          /\ (data_file[d] = Absent /\ meta_file[d] = Absent) =>
               /\ last'.outcome = "ok"
               /\ data_file' = data_file /\ meta_file' = meta_file
    ]_vars

\* invalidate has removed an entry that had been written
C10_Witness ==
  /\ last.op = "invalidate" /\ last.outcome = "ok"
  /\ last.found = "fresh"
  /\ ~exists(last.dataset)
  /\ get(last.dataset).data = None
  /\ \E d \in DATASETS \ {last.dataset} : exists(d)

\* C12: a put that returns has written the payload and the metadata it
\* returns; a put one of whose writes failed raises and returns no metadata.
C12_PutReturnsOrRaises ==
  last.op = "put" =>
    /\ last.outcome \in {"ok", "raised"}
    /\ last.outcome = "ok" =>
          /\ last.data # None /\ last.meta # None
          /\ data_file[last.dataset] = File(last.data[1])
          /\ meta_file[last.dataset] = File(to_json(last.meta[1]))
    /\ ( \/ data_file[last.dataset].kind # "ok"
         \/ meta_file[last.dataset].kind # "ok"
         \/ Content(data_file[last.dataset]).written_at # clock
         \/ FromIsoFormat(Content(meta_file[last.dataset]).last_fetch)
              # ClockAt(clock) )
          => (last.outcome = "raised" /\ last.meta = None)

\* a put has raised after writing the payload: the metadata on disk is the
\* one of the put before
C12_Witness ==
  /\ last.op = "put" /\ last.outcome = "raised" /\ last.meta = None
  /\ clock = 2
  /\ Readable(data_file[last.dataset])
  /\ Content(data_file[last.dataset]).written_at = 2
  /\ Readable(meta_file[last.dataset])
  /\ FromIsoFormat(Content(meta_file[last.dataset]).last_fetch) = ClockAt(1)

(***************************************************************************)
(* Properties of the calls with an unconfigured identifier, checked under  *)
(* ConfigSpec.                                                             *)
(***************************************************************************)
\* C14: get, put, needs_refresh, mark_stale and invalidate called with an
\* identifier outside the configured dataset set raise an error and leave
\* every file of the store as it was; none of them returns normally.
C14_UnconfiguredFailsFast ==
  [][ ( /\ last'.dataset \in Unconfigured
        /\ last'.op \in {"get", "put", "needs_refresh", "mark_stale",
                         "invalidate"} ) =>
        /\ last'.outcome = "raised"
        /\ data_file' = data_file
        /\ meta_file' = meta_file
    ]_vars

(***************************************************************************)
(* Properties of concurrent callers, checked under RaceSpec.               *)
(***************************************************************************)
\* C19: a get that runs concurrently with a put replacing an entry returns
\* (None, None) or a pair written by a single put: the metadata it returns
\* has the row count of the payload it returns and the time of the put that
\* wrote that payload.
C19_GetSeesOnePut ==
  (last.op = "get" /\ last.data # None) =>
    /\ last.meta # None
    /\ last.meta[1].record_count = last.data[1].rows
    /\ last.meta[1].last_fetch = ClockAt(last.data[1].written_at)

(***************************************************************************)
(* Properties of the data service, checked under CycleSpec.                *)
(***************************************************************************)
CycleRan == cycle # NoCycle

C11_NeedsRefreshFromLastFetch ==
  (last.op = "needs_refresh" /\ last.dataset \in DATASETS) =>
    LET mf == meta_file[last.dataset]
    IN  /\ last.outcome = "ok"
        /\ ~Readable(mf) =>
              /\ last.decision.should_refresh
              /\ last.decision.reason = INITIAL_FETCH
        /\ Readable(mf) =>
              last.decision =
                should_refresh_at(last.dataset,
                                  FromIsoFormat(Content(mf).last_fetch),
                                  last.now)

\* needs_refresh has kept an entry that is marked stale, on a Saturday after
\* the time its stored next_expected names
C11_Witness ==
  /\ last.op = "needs_refresh" /\ last.found = "stale"
  /\ ~last.decision.should_refresh
  /\ last.decision.reason = CACHED_WEEKEND
  /\ DtLess(get_metadata(last.dataset)[1].next_expected, last.now)

(***************************************************************************)
(* Properties of the metadata a cycle returns, checked under CycleSpec.    *)
(***************************************************************************)
\* C21: whenever a cycle serves the cached payload of its dataset because
\* the fetch failed, the metadata returned in the same result has
\* is_stale = true and refresh_reason = FetchFailedUsingStale.
C21_StaleServedCarriesStaleMetadata ==
  (CycleRan /\ cycle.fetch = "failed" /\ cycle.stale_warning) =>
    /\ cycle.meta # None
    /\ cycle.meta[1].is_stale
    /\ cycle.meta[1].refresh_reason = FETCH_FAILED_USING_STALE

(***************************************************************************)
(* Properties of the reasons of a decision, checked under SchedSpec.       *)
(***************************************************************************)
\* C22: the scheduler never returns the reasons ForcedRefresh or
\* FetchFailedUsingStale, and in every decision it returns should_refresh is
\* true exactly when the reason is InitialFetch, DailyUpdateExpected or
\* MonthlyUpdateExpected.
C22_RefreshIffUpdateReason ==
  Decided =>
    /\ q_decision.reason \in
         RefreshReason \ {FORCED_REFRESH, FETCH_FAILED_USING_STALE}
    /\ q_decision.should_refresh <=>
         q_decision.reason \in
           {INITIAL_FETCH, DAILY_UPDATE_EXPECTED, MONTHLY_UPDATE_EXPECTED}

\* the daily dataset, fetched the day before, is kept on a Saturday after
\* the check time
C22_Witness ==
  /\ Decided /\ q_dataset = "monetary" /\ q_last_fetch # NoFetch
  /\ Weekday(q_now.date) = 5 /\ q_now.t >= SCHEDULES[q_dataset].check_time
  /\ AddDay(q_last_fetch.date) = q_now.date
  /\ q_decision.reason = CACHED_WEEKEND /\ ~q_decision.should_refresh

(***************************************************************************)
(* Properties of the monthly check on any publication day, checked under   *)
(* MonthlySpec.                                                            *)
(***************************************************************************)
\* C23: for a monthly schedule with any publication_day in 1..31 and any
\* month, now is taken to be before the publication day exactly when its day
\* of month is below the publication day clamped to the length of the month,
\* the day next_expected uses; so a decision CachedBeforeReleaseDay never
\* carries a next_expected that is not after now.
C23_ReleaseDayClamped ==
  (Decided /\ q_entry = "_check_monthly_refresh") =>
    LET clamped == Min(PubDay(q_custom),
                       DaysInMonth(q_now.date.y, q_now.date.m))
    IN  q_decision.reason = CACHED_BEFORE_RELEASE_DAY =>
          /\ q_now.date.d < clamped
          /\ DtLess(q_now, q_decision.next_expected)

(***************************************************************************)
(* Properties of the search for a business day, checked under              *)
(* BusinessDaySpec.                                                        *)
(***************************************************************************)
\* C24: _next_business_day(from_date, at_time) returns at_time on the
\* earliest date D >= from_date for which is_business_day(D) holds: D is a
\* business day and no date from from_date up to the day before D is one.
C24_EarliestBusinessDay ==
  (q_entry = "_next_business_day") =>
    LET from_date == q_now.date
        gap == ToOrdinal(q_next.date) - ToOrdinal(from_date)
    IN  /\ q_next.t = q_now.t
        /\ gap >= 0
        /\ q_next.date = AddDays(from_date, gap)
        /\ is_business_day(q_next.date)
        /\ \A k \in 0 .. (gap - 1) : ~is_business_day(AddDays(from_date, k))

\* from Christmas Day on a Friday the search passes Boxing Day on Saturday,
\* Sunday and the substitute holiday on Monday
C24_Witness ==
  /\ q_entry = "_next_business_day"
  /\ q_now.date = MkDate(2026, 12, 25) /\ Weekday(q_now.date) = 4
  /\ q_next.date = MkDate(2026, 12, 29)

(***************************************************************************)
(* Properties of the fetch of a cycle, checked under CycleSpec.            *)
(***************************************************************************)
\* C25: a cycle calls the fetch collaborator of its dataset if and only if
\* force_refresh is set, or get returned no cached pair, or the scheduler's
\* decision for the cached last_fetch asks for a refresh; when the fetch is
\* not called the files of the dataset are left as they were, and when it is
\* called and succeeds, the metadata put writes and returns carries the
\* reason that triggered it: ForcedRefresh when forced, else InitialFetch
\* without a cached pair, else the reason of the scheduler's decision.
C25_FetchIffRefreshRequired ==
  [][ cycle' # cycle =>
        LET c == cycle'
            d == c.dataset
            no_pair == c.cached_df = None \/ c.cached_meta = None
            decision == should_refresh(d, c.cached_meta[1].last_fetch, c.now)
            required == c.force_refresh \/ no_pair \/ decision.should_refresh
            trigger == IF c.force_refresh THEN FORCED_REFRESH
                       ELSE IF no_pair THEN INITIAL_FETCH
                       ELSE decision.reason
        IN  /\ c.fetch # "not_called" <=> required
            /\ c.fetch = "not_called" =>
                 /\ data_file' = data_file
                 /\ meta_file' = meta_file
                 /\ c.data = TransformCached(d, c.cached_df[1])
            /\ (c.fetch = "ok" /\ c.outcome = "ok") =>
                 /\ c.meta # None
                 /\ c.meta[1].refresh_reason = trigger
                 /\ Readable(meta_file'[d])
                 /\ Some(from_json(Content(meta_file'[d]))) = c.meta
                 /\ last'.op = "put" /\ last'.arg = trigger
      ]_vars

\* a forced refresh of a cached entry that the scheduler would keep has
\* fetched and stored the new payload with the reason ForcedRefresh
C25_Witness ==
  /\ CycleRan /\ cycle.force_refresh /\ cycle.fetch = "ok"
  /\ cycle.cached_meta # None
  /\ ~should_refresh(cycle.dataset, cycle.cached_meta[1].last_fetch,
                     cycle.now).should_refresh
  /\ last.op = "put" /\ last.arg = FORCED_REFRESH
  /\ get_metadata(cycle.dataset) = cycle.meta

(***************************************************************************)
(* Properties of the timestamps put stores, checked under StampSpec.       *)
(***************************************************************************)
\* C26: the decision of the scheduler has next_expected strictly later than
\* now, whatever its reason, and so the next_expected put stores in the
\* metadata is strictly later than the last_fetch stored with it.
C26_NextExpectedAfterLastFetch ==
  (q_entry = "put") =>
    /\ DtLess(q_now, q_decision.next_expected)
    /\ DtLess(q_last_fetch, q_decision.next_expected)

\* C27: a successful write never leaves the entry due at once:
\* needs_refresh evaluated at the instant of the put, on the last_fetch the
\* put stored, does not ask for a refresh.
C27_NotDueAfterPut ==
  (q_entry = "needs_refresh") => ~q_decision.should_refresh

(***************************************************************************)
(* Properties of the monthly releases, checked under DueSpec.              *)
(***************************************************************************)
\* C28: a monthly release is never skipped: for a monthly dataset, whenever
\* now is at or after the publication instant of now's month (the
\* publication day at check_time) and last_fetch is earlier than that
\* instant, the decision asks for a refresh, also when last_fetch lies on
\* the publication day before check_time.
C28_MonthlyReleaseNotSkipped ==
  (Decided /\ q_dataset \in {"housing", "economic"} /\ q_last_fetch # NoFetch) =>
    LET schedule == SCHEDULES[q_dataset]
        publication ==
          Combine(MkDate(q_now.date.y, q_now.date.m, schedule.publication_day),
                  schedule.check_time)
    IN  (DtGeq(q_now, publication) /\ DtLess(q_last_fetch, publication)) =>
          q_decision.should_refresh

C30_MarkStaleSerialWithPut ==
  \A d \in SampleDatasets :
    (writer = None /\ marker = None /\ Readable(data_file[d])
       /\ Readable(meta_file[d])) =>
      LET payload == Content(data_file[d])
          metadata == from_json(Content(meta_file[d]))
          own == PutMetadata(d, ClockAt(payload.written_at), payload,
                             metadata.refresh_reason)
      IN  /\ metadata.last_fetch = ClockAt(payload.written_at)
          /\ metadata.record_count = payload.rows
          /\ \/ (metadata = own /\ ~metadata.is_stale)
             \/ metadata = StaleMetadata(own)

====
